---- MODULE Spec2Model ----
(***************************************************************************)
(* oci-semver-tagging: the tag resolver (src/src/tag.rs, tags_to_push),    *)
(* the publish orchestrator (src/src/tag.rs, tag) and the driver           *)
(* (src/src/lib.rs, run) against one repository of an OCI registry.        *)
(*                                                                         *)
(* Strings are sequences of one-character strings, so that formatting a    *)
(* tag and parsing a tag are two different computations.  Option<T> is a   *)
(* sequence of length 0 (None) or 1 (Some).                                *)
(***************************************************************************)
EXTENDS Integers, Sequences, FiniteSets, TLC

\* ------------------------------------------------------------------ bounds
\* Greatest major number of a version a run is given.
MaxMajor == 2
\* Greatest minor and patch number of a version a run is given.
MaxNum == 1
\* Longest list of existing versions handed to tags_to_push on its own.
MaxExisting == 2
\* Number of images uploaded to the repository.
MaxImages == 1
\* Number of invocations of the tool.
MaxRuns == 2
\* Number of registry calls that fail.
MaxFailures == 1
\* Number of images uploaded before the one invocation that is given any
\* input.
MaxRunImages == 2
\* Number of tags of a repository of arbitrary tags.
MaxTags == 2

\* ----------------------------------------------------------------- strings
DigitChars == <<"0", "1", "2", "3", "4", "5", "6", "7", "8", "9">>

Digits == {DigitChars[i] : i \in 1..Len(DigitChars)}

Letters == {"a", "b", "v"}

IsDigit(c) == c \in Digits

DigitVal(c) == (CHOOSE i \in 1..Len(DigitChars) : DigitChars[i] = c) - 1

None == <<>>

Some(x) == <<x>>

\* format!("{}", n) of an unsigned integer: its decimal digits.
RECURSIVE NumStr(_)
NumStr(n) ==
    IF n < Len(DigitChars) THEN <<DigitChars[n + 1]>>
    ELSE NumStr(n \div Len(DigitChars)) \o <<DigitChars[(n % Len(DigitChars)) + 1]>>

\* str::starts_with
starts_with(s, p) == Len(p) <= Len(s) /\ SubSeq(s, 1, Len(p)) = p

\* str::trim_start_matches: removes the pattern from the front repeatedly.
RECURSIVE trim_start_matches(_, _)
trim_start_matches(s, p) ==
    IF Len(p) > 0 /\ starts_with(s, p)
    THEN trim_start_matches(SubSeq(s, Len(p) + 1, Len(s)), p)
    ELSE s

\* A reverse that is left out.
Reverse_omitted(s) == s

\* tags.reverse()
Reverse(s) == [i \in 1..Len(s) |-> s[Len(s) + 1 - i]]

\* ---------------------------------------------------------------- versions
\* semver::Version; pre and build are identifier strings, empty when absent.
Version(major, minor, patch, pre, build) ==
    [major |-> major, minor |-> minor, patch |-> patch, pre |-> pre, build |-> build]

\* Number of leading digits of s.
RECURSIVE LeadingDigits(_)
LeadingDigits(s) ==
    IF Len(s) > 0 /\ IsDigit(s[1]) THEN 1 + LeadingDigits(Tail(s)) ELSE 0

RECURSIVE DecimalValue(_, _)
DecimalValue(s, acc) ==
    IF Len(s) = 0 THEN acc
    ELSE DecimalValue(Tail(s), acc * Len(DigitChars) + DigitVal(s[1]))

\* A numeric identifier at the front of s: digits, no leading zero.
\* [ok, val, rest].
NumericIdentifier(s) ==
    LET k == LeadingDigits(s) IN
    IF k = 0 \/ (k > 1 /\ s[1] = "0")
    THEN [ok |-> FALSE, val |-> 0, rest |-> s]
    ELSE [ok |-> TRUE, val |-> DecimalValue(SubSeq(s, 1, k), 0),
          rest |-> SubSeq(s, k + 1, Len(s))]

\* A "." at the front of s.  [ok, rest].
Dot(s) ==
    IF Len(s) > 0 /\ s[1] = "."
    THEN [ok |-> TRUE, rest |-> Tail(s)]
    ELSE [ok |-> FALSE, rest |-> s]

\* Position of the first c in s, Len(s) + 1 when there is none.
RECURSIVE IndexOf(_, _)
IndexOf(s, c) ==
    IF Len(s) = 0 \/ s[1] = c THEN 1 ELSE 1 + IndexOf(Tail(s), c)

\* A prerelease or build identifier: non-empty dot-separated segments of
\* letters, digits and hyphens; a numeric segment of a prerelease has no
\* leading zero.
RECURSIVE ValidIdentifier(_, _)
ValidIdentifier(s, numericNoLeadingZero) ==
    LET k == IndexOf(s, ".")
        seg == SubSeq(s, 1, k - 1)
    IN  /\ Len(seg) > 0
        /\ \A i \in 1..Len(seg) : seg[i] \in Letters \cup Digits \cup {"-"}
        /\ ~(/\ numericNoLeadingZero
             /\ Len(seg) > 1
             /\ seg[1] = "0"
             /\ \A i \in 1..Len(seg) : IsDigit(seg[i]))
        /\ (k <= Len(s) => ValidIdentifier(SubSeq(s, k + 1, Len(s)), numericNoLeadingZero))

\* The part of a version string after the patch number: "" | -pre | +build
\* | -pre+build.  [ok, pre, build].
ParseSuffix(s) ==
    LET plus == IndexOf(s, "+")
        head == SubSeq(s, 1, plus - 1)
        build == SubSeq(s, plus + 1, Len(s))
        pre == IF Len(head) > 0 THEN Tail(head) ELSE <<>>
        bad == [ok |-> FALSE, pre |-> <<>>, build |-> <<>>]
    IN  IF Len(head) > 0 /\ head[1] # "-" THEN bad
        ELSE IF Len(head) > 0 /\ ~ValidIdentifier(pre, TRUE) THEN bad
        ELSE IF plus <= Len(s) /\ ~ValidIdentifier(build, FALSE) THEN bad
        ELSE [ok |-> TRUE, pre |-> pre, build |-> build]

\* Version::from_str as an Option: major "." minor "." patch, then an
\* optional "-" prerelease and an optional "+" build metadata.
Version_from_str(s) ==
    LET ma == NumericIdentifier(s)
        d1 == Dot(ma.rest)
        mi == NumericIdentifier(d1.rest)
        d2 == Dot(mi.rest)
        pa == NumericIdentifier(d2.rest)
        sf == ParseSuffix(pa.rest)
    IN  IF ma.ok /\ d1.ok /\ mi.ok /\ d2.ok /\ pa.ok /\ sf.ok
        THEN Some(Version(ma.val, mi.val, pa.val, sf.pre, sf.build))
        ELSE None

\* Display of a Version: the string Version::from_str reads back.
VersionStr(v) ==
    NumStr(v.major) \o <<".">> \o NumStr(v.minor) \o <<".">> \o NumStr(v.patch)
        \o (IF Len(v.pre) > 0 THEN <<"-">> \o v.pre ELSE <<>>)
        \o (IF Len(v.build) > 0 THEN <<"+">> \o v.build ELSE <<>>)

\* ASCII order of the characters of an identifier.
CharRank(c) ==
    IF c = "-" THEN 0
    ELSE IF IsDigit(c) THEN 1 + DigitVal(c)
    ELSE IF c = "a" THEN 11
    ELSE IF c = "b" THEN 12
    ELSE 13

\* Lexical order of two strings by character code.
RECURSIVE StrLess(_, _)
StrLess(x, y) ==
    IF Len(y) = 0 THEN FALSE
    ELSE IF Len(x) = 0 THEN TRUE
    ELSE IF x[1] # y[1] THEN CharRank(x[1]) < CharRank(y[1])
    ELSE StrLess(Tail(x), Tail(y))

IsNumeric(seg) == Len(seg) > 0 /\ \A i \in 1..Len(seg) : IsDigit(seg[i])

\* Order of two segments of a prerelease: numeric below alphanumeric,
\* numeric by value, alphanumeric lexically.
SegmentLess(x, y) ==
    IF IsNumeric(x) /\ IsNumeric(y)
    THEN DecimalValue(x, 0) < DecimalValue(y, 0)
    ELSE IF IsNumeric(x) THEN TRUE
    ELSE IF IsNumeric(y) THEN FALSE
    ELSE StrLess(x, y)

\* Order of two non-empty prereleases, segment by segment; when one is a
\* prefix of the other the shorter is the lesser.
RECURSIVE SegmentsLess(_, _)
SegmentsLess(a, b) ==
    LET ka == IndexOf(a, ".")
        kb == IndexOf(b, ".")
        sa == SubSeq(a, 1, ka - 1)
        sb == SubSeq(b, 1, kb - 1)
    IN  IF sa # sb THEN SegmentLess(sa, sb)
        ELSE IF ka > Len(a) THEN kb <= Len(b)
        ELSE IF kb > Len(b) THEN FALSE
        ELSE SegmentsLess(SubSeq(a, ka + 1, Len(a)), SubSeq(b, kb + 1, Len(b)))

\* Ord of semver::Prerelease: the empty prerelease is the greatest.
PreLess(a, b) ==
    IF Len(a) = 0 THEN FALSE
    ELSE IF Len(b) = 0 THEN TRUE
    ELSE SegmentsLess(a, b)

\* Precedence of two versions: major, minor, patch, then prerelease.
VersionLess(v, w) ==
    IF v.major # w.major THEN v.major < w.major
    ELSE IF v.minor # w.minor THEN v.minor < w.minor
    ELSE IF v.patch # w.patch THEN v.patch < w.patch
    ELSE PreLess(v.pre, w.pre)

\* ------------------------------------------------- version requirements
\* semver::Comparator; minor and patch are Options, pre is empty here.
Comparator(op, major, minor, patch) ==
    [op |-> op, major |-> major, minor |-> minor, patch |-> patch, pre |-> <<>>]

matches_exact(cmp, ver) ==
    /\ ver.major = cmp.major
    /\ (cmp.minor # None => ver.minor = cmp.minor[1])
    /\ (cmp.patch # None => ver.patch = cmp.patch[1])
    /\ ver.pre = cmp.pre

matches_greater(cmp, ver) ==
    IF ver.major # cmp.major THEN ver.major > cmp.major
    ELSE IF cmp.minor = None THEN FALSE
    ELSE IF ver.minor # cmp.minor[1] THEN ver.minor > cmp.minor[1]
    ELSE IF cmp.patch = None THEN FALSE
    ELSE IF ver.patch # cmp.patch[1] THEN ver.patch > cmp.patch[1]
    ELSE PreLess(cmp.pre, ver.pre)

matches_less(cmp, ver) ==
    IF ver.major # cmp.major THEN ver.major < cmp.major
    ELSE IF cmp.minor = None THEN FALSE
    ELSE IF ver.minor # cmp.minor[1] THEN ver.minor < cmp.minor[1]
    ELSE IF cmp.patch = None THEN FALSE
    ELSE IF ver.patch # cmp.patch[1] THEN ver.patch < cmp.patch[1]
    ELSE PreLess(ver.pre, cmp.pre)

matches_comparator(cmp, ver) ==
    IF cmp.op = ">=" THEN matches_exact(cmp, ver) \/ matches_greater(cmp, ver)
    ELSE IF cmp.op = ">" THEN matches_greater(cmp, ver)
    ELSE matches_less(cmp, ver)

\* A version with a prerelease satisfies a requirement only when a
\* comparator of the same major.minor.patch has a prerelease as well.
pre_is_compatible(cmp, ver) ==
    /\ cmp.major = ver.major
    /\ cmp.minor = Some(ver.minor)
    /\ cmp.patch = Some(ver.patch)
    /\ Len(cmp.pre) > 0

\* VersionReq::matches: every comparator matches, and a prerelease version
\* needs a compatible comparator.
matches(req, ver) ==
    /\ \A i \in 1..Len(req) : matches_comparator(req[i], ver)
    /\ (Len(ver.pre) > 0 => \E i \in 1..Len(req) : pre_is_compatible(req[i], ver))

\* ------------------------------------------------------------------ tag.rs
\* An equality test that looks at the first existing version only.
contains_version_first_only(existing_tags, version) ==
    Len(existing_tags) > 0 /\ existing_tags[1] = version

\* existing_tags.iter().any(|v| v == &version)
contains_version(existing_tags, version) ==
    \E i \in 1..Len(existing_tags) : existing_tags[i] = version

\* A minor requirement whose lower bound is exclusive: ">" for ">=".
minor_version_req_exclusive(version) ==
    << [op |-> ">", major |-> version.major, minor |-> <<version.minor>>,
        patch |-> <<version.patch>>, pre |-> <<>>],
       [op |-> "<", major |-> version.major, minor |-> <<version.minor + 1>>,
        patch |-> <<>>, pre |-> <<>>],
       [op |-> "<", major |-> version.major + 1, minor |-> <<0>>, patch |-> <<0>>,
        pre |-> <<>>] >>

\* ">={major}.{minor}.{patch}, <{major}.{minor_next}, <{major_next}.0.0"
minor_version_req(version) ==
    << Comparator(">=", version.major, Some(version.minor), Some(version.patch)),
       Comparator("<", version.major, Some(version.minor + 1), None),
       Comparator("<", version.major + 1, Some(0), Some(0)) >>

\* A major requirement that starts at the target: ">={major}.{minor}.{patch}".
major_version_req_from_target(version) ==
    << [op |-> ">=", major |-> version.major, minor |-> <<version.minor>>,
        patch |-> <<version.patch>>, pre |-> <<>>],
       [op |-> "<", major |-> version.major + 1, minor |-> <<0>>, patch |-> <<0>>,
        pre |-> <<>>] >>

\* A major requirement without its upper bound: ">={major}.{minor}".
major_version_req_unbounded(version) ==
    << [op |-> ">=", major |-> version.major, minor |-> <<version.minor>>,
        patch |-> <<>>, pre |-> <<>>] >>

\* ">={major}.{minor}, <{major_next}.0.0"
major_version_req(version) ==
    << Comparator(">=", version.major, Some(version.minor), None),
       Comparator("<", version.major + 1, Some(0), Some(0)) >>

\* existing_tags.iter().any(|v| version_req.matches(v))
any_matches(existing_tags, version_req) ==
    \E i \in 1..Len(existing_tags) : matches(version_req, existing_tags[i])

\* The prefix left out of the tags.
prefix_str_ignored(prefix) == <<>>

\* prefix.as_ref().map(|s| s.as_str()).unwrap_or("")
prefix_str(prefix) == IF prefix = None THEN <<>> ELSE prefix[1]

patch_tag(prefix, version) ==
    prefix_str(prefix) \o NumStr(version.major) \o <<".">> \o NumStr(version.minor)
        \o <<".">> \o NumStr(version.patch)

minor_tag(prefix, version) ==
    prefix_str(prefix) \o NumStr(version.major) \o <<".">> \o NumStr(version.minor)

major_tag(prefix, version) == prefix_str(prefix) \o NumStr(version.major)

\* The tags in derivation order: patch, then minor, then major.
derived_tags(version, existing_tags, prefix) ==
    IF contains_version(existing_tags, version) THEN <<>>
    ELSE <<patch_tag(prefix, version)>> \o
         (IF any_matches(existing_tags, minor_version_req(version)) THEN <<>>
          ELSE <<minor_tag(prefix, version)>> \o
               (IF any_matches(existing_tags, major_version_req(version)) THEN <<>>
                ELSE <<major_tag(prefix, version)>>))

tags_to_push(version, existing_tags, prefix) ==
    Reverse(derived_tags(version, existing_tags, prefix))

\* ------------------------------------------------------------------ lib.rs
Ok(x) == [ok |-> TRUE, value |-> x]

Err(e) == [ok |-> FALSE, value |-> e]

\* oci_distribution::Reference of the one repository: a tag or a digest.
Reference(tag, digest) == [tag |-> tag, digest |-> digest]

\* version_to_tag without the test for build metadata.
version_to_tag_accepts_build(image, cli_version, tag_prefix) ==
    IF cli_version # None THEN Ok(cli_version[1]) ELSE Err("Missing tag")

version_to_tag(image, cli_version, tag_prefix) ==
    IF cli_version # None
    THEN IF Len(cli_version[1].build) = 0
         THEN Ok(cli_version[1])
         ELSE Err("contains build metadata")
    ELSE IF image.tag = None THEN Err("Missing tag")
    ELSE IF tag_prefix # None /\ ~starts_with(image.tag[1], tag_prefix[1])
         THEN Err("The image tag doesn't start with the prefix")
    ELSE LET tag == IF tag_prefix = None THEN image.tag[1]
                    ELSE trim_start_matches(image.tag[1], tag_prefix[1])
             parsed == Version_from_str(tag)
         IN  IF parsed = None THEN Err("Can't parse version from image's tag")
             ELSE Ok(parsed[1])

\* The closure of flat_map in present_semver_tags: one registry tag to an
\* Option<Version>.
semver_of_tag(tag, prefix) ==
    IF prefix = None THEN Version_from_str(tag)
    ELSE IF ~starts_with(tag, prefix[1]) THEN None
    ELSE Version_from_str(trim_start_matches(tag, prefix[1]))

\* tags.into_iter().flat_map(..).collect()
RECURSIVE present_semver_tags(_, _)
present_semver_tags(tag_list, prefix) ==
    IF Len(tag_list) = 0 THEN <<>>
    ELSE semver_of_tag(tag_list[1], prefix) \o present_semver_tags(Tail(tag_list), prefix)

\* ------------------------------------------------------------- input sets
Prereleases == {<<>>, <<"a">>}

Prefixes == {None, Some(<<"v">>)}

\* The versions tags_to_push is applied to on its own.
FnVersions ==
    {Version(ma, mi, pa, pre, <<>>) :
        ma \in 1..MaxMajor, mi \in 0..MaxNum, pa \in 0..MaxNum, pre \in Prereleases}

\* The targets tags_to_push is applied to on its own: the versions of the
\* least and of the greatest major line.
TargetVersions == {v \in FnVersions : v.major \in {1, MaxMajor}}

\* Sets of at most n versions.
RECURSIVE VersionSets(_)
VersionSets(n) ==
    IF n = 0 THEN {{}}
    ELSE LET smaller == VersionSets(n - 1)
         IN  smaller \cup {S \cup {v} : S \in smaller, v \in FnVersions}

\* A set as a list, in an order of the registry's choosing.
RECURSIVE ListOf(_)
ListOf(set) ==
    IF set = {} THEN <<>>
    ELSE LET x == CHOOSE y \in set : TRUE
         IN  <<x>> \o ListOf(set \ {x})

\* Lists of at most n different versions, one list per set.
VersionLists(n) == {ListOf(S) : S \in VersionSets(n)}

\* The versions given on the command line or carried by an image tag.
RunVersions ==
    {Version(1, mi, pa, pre, <<>>) : mi \in 0..MaxNum, pa \in 0..MaxNum, pre \in Prereleases}

\* The tag an image is uploaded under: none (by digest only), or the
\* newest version of RunVersions with or without its prerelease.
SourceTags ==
    {None} \cup
    {Some(VersionStr(v)) : v \in {w \in RunVersions : w.minor = MaxNum /\ w.patch = MaxNum}}

\* -------------------------------------------------- credentials and results
\* Anonymous access whatever the credential flags are.
registry_auth_always_anonymous(user, stdin, env, env_value) == Ok("Anonymous")

\* Args::registry_auth: the credential flags decide, and the environment
\* variable when one is named; env_value is its value, None when unset.
registry_auth(user, stdin, env, env_value) ==
    IF user = None /\ ~stdin /\ env = None THEN Ok("Anonymous")
    ELSE IF user # None /\ stdin /\ env = None THEN Err("not yet implemented")
    ELSE IF user # None /\ ~stdin /\ env # None
         THEN IF env_value = None
              THEN Err("Cannot read password from environment variable")
              ELSE Ok("Basic")
    ELSE Err("TODO")

\* Ok(()) of run and tag.
OkUnit == Ok([error |-> "", image |-> <<>>])

\* An error with the context of the image it is about, empty when the
\* error is about no destination image.
ErrContext(error, image) == Err([error |-> error, image |-> image])

\* A join error taken for a success.
join_error_ignored == OkUnit

\* todo!(): the invocation unwinds with a panic instead of returning.
Panicked == ErrContext("not yet implemented", <<>>)

\* The credential flags of an invocation, with the value of the named
\* environment variable.
Credentials(user, stdin, env, env_value) ==
    [user |-> user, stdin |-> stdin, env |-> env, env_value |-> env_value]

Anonymous == Credentials(None, FALSE, None, None)

\* The flags the command line accepts: --password-stdin and --password-env
\* exclude each other.
CredentialFlags ==
    {Credentials(u, s, e, x) :
        u \in {None, Some("u")}, s \in BOOLEAN, e \in {None, Some("P")},
        x \in {None, Some("s")}} \
    {c \in {Credentials(u, s, e, x) :
                u \in {None, Some("u")}, s \in BOOLEAN, e \in {None, Some("P")},
                x \in {None, Some("s")}} :
        (c.stdin /\ c.env # None) \/ (c.env = None /\ c.env_value # None)}

\* A registry call that has ended by returning.
Call(op, image, ok) == [op |-> op, image |-> image, ok |-> ok, panicked |-> FALSE]

\* A push task that has ended by panicking.
Aborted(image) ==
    [op |-> "push_manifest", image |-> image, ok |-> FALSE, panicked |-> TRUE]

\* The ? operator never returning.
returns_early_never(res) == FALSE

\* The ? operator on the result of a registry call: an Err returns from
\* the function.
returns_early(res) == ~res.ok

\* The tag list taken for non-empty whatever it holds.
is_empty_never(tag_list) == FALSE

\* tags_to_push.is_empty()
is_empty(tag_list) == Len(tag_list) = 0

\* ------------------------------------------------------------------- state
VARIABLES
    registry,           \* the repository: tag string -> manifest
    blobs,              \* manifests stored in the repository
    pc,                 \* position of the invocation
    args,               \* SubCommands::Tag of the invocation
    version,            \* version_to_tag of the invocation
    existing_tags,      \* present_semver_tags of the invocation
    tags,               \* tags_to_push of the invocation
    baseline_manifest,  \* the manifest pulled, an Option
    running,            \* tags whose push task is spawned and not finished
    finished,           \* finished push tasks not yet joined
    result,             \* result of tag()
    pushed,             \* tags this invocation has pushed successfully
    tag_version,        \* tag string -> the version it was last pushed for
    failures,           \* registry calls that have failed
    source_tags,        \* the tags images were uploaded under
    calls,              \* registry calls of the invocation, as they ended
    registry_before,    \* the repository when the invocation started
    history             \* the invocations that have returned

vars ==
    << registry, blobs, pc, args, version, existing_tags, tags, baseline_manifest,
       running, finished, result, pushed, tag_version, failures, source_tags,
       calls, registry_before, history >>

NoArgs ==
    [image |-> Reference(None, None), tag_version |-> None, tag_prefix |-> None,
     dry_run |-> FALSE, credentials |-> Anonymous]

NoVersion == Version(0, 0, 0, <<>>, <<>>)

EmptyMap == [t \in {} |-> 0]

\* f with key k set to v.
MapPut(f, k, v) == [t \in DOMAIN f \cup {k} |-> IF t = k THEN v ELSE f[t]]

Range(s) == {s[i] : i \in 1..Len(s)}

\* The tags of the repository as list_tags returns them.
TagList(tagset) == ListOf(tagset)

\* What an invocation leaves behind when it returns.
Returned(a, target, computed, ok_tags, res) ==
    [args |-> a, version |-> target, tags |-> computed, pushed |-> ok_tags,
     result |-> res]

\* The spawn loop without its first tag.
spawn_skips_first(tag_list, dry_run) ==
    IF dry_run \/ Len(tag_list) = 0 THEN {} ELSE Range(Tail(tag_list))

\* The spawn loop regardless of dry_run.
spawn_ignores_dry_run(tag_list, dry_run) == Range(tag_list)

\* tag(), lines 29-49: the tags a push task is spawned for.
spawn(tag_list, dry_run) == IF dry_run THEN {} ELSE Range(tag_list)

\* The join loop keeping the first error.
join_result_keeps_first(res, task) ==
    IF task.ok \/ ~res.ok THEN res ELSE ErrContext("push_manifest", task.tag)

\* The join loop forgetting an error on a later success.
join_result_forgets(res, task) ==
    IF task.ok THEN OkUnit ELSE ErrContext("push_manifest", task.tag)

\* tag(), lines 53-60: result after a task that returned is joined.
join_result(res, task) ==
    IF task.ok THEN res ELSE ErrContext("push_manifest", task.tag)

Init ==
    /\ registry = EmptyMap
    /\ blobs = {}
    /\ pc = "idle"
    /\ args = NoArgs
    /\ version = NoVersion
    /\ existing_tags = <<>>
    /\ tags = <<>>
    /\ baseline_manifest = None
    /\ running = {}
    /\ finished = <<>>
    /\ result = OkUnit
    /\ pushed = {}
    /\ tag_version = EmptyMap
    /\ failures = 0
    /\ source_tags = {}
    /\ calls = <<>>
    /\ registry_before = EmptyMap
    /\ history = <<>>

\* An image is copied into the repository, by digest only or under a tag
\* that is not taken.
Upload(tag) ==
    /\ pc = "idle"
    /\ tag # None => tag[1] \notin DOMAIN registry
    /\ LET m == Cardinality(blobs) + 1
       IN  /\ blobs' = blobs \cup {m}
           /\ registry' = IF tag = None THEN registry ELSE MapPut(registry, tag[1], m)
    /\ source_tags' = source_tags \cup Range(tag)
    /\ UNCHANGED << pc, args, version, existing_tags, tags, baseline_manifest, running,
                    finished, result, pushed, tag_version, failures, calls,
                    registry_before, history >>

\* The image references a run can be given: a manifest by digest, or a tag
\* of the repository that reads as a version.
ImageRefs ==
    {Reference(None, Some(m)) : m \in blobs}
        \cup {Reference(Some(VersionStr(v)), None) :
                v \in {w \in RunVersions : VersionStr(w) \in DOMAIN registry}}

\* The image references by digest and by any tag of the repository.
AnyImageRefs ==
    {Reference(None, Some(m)) : m \in blobs}
        \cup {Reference(Some(t), None) : t \in DOMAIN registry}

\* run, lines 144-153: registry_auth and version_to_tag, and the return
\* when one of them fails.
Run(image, tag_version_arg, tag_prefix, dry_run, credentials) ==
    /\ UNCHANGED source_tags
    /\ pc = "idle"
    /\ LET a == [image |-> image, tag_version |-> tag_version_arg,
                 tag_prefix |-> tag_prefix, dry_run |-> dry_run,
                 credentials |-> credentials]
           auth == registry_auth(credentials.user, credentials.stdin,
                                 credentials.env, credentials.env_value)
           v == version_to_tag(image, tag_version_arg, tag_prefix)
       IN  /\ args' = a
           /\ existing_tags' = <<>>
           /\ tags' = <<>>
           /\ baseline_manifest' = None
           /\ result' = OkUnit
           /\ pushed' = {}
           /\ calls' = <<>>
           /\ registry_before' = registry
           /\ IF ~auth.ok
              THEN /\ version' = NoVersion
                   /\ pc' = "idle"
                   /\ history' = Append(history,
                                    Returned(a, None, None, {}, ErrContext(auth.value, <<>>)))
              ELSE IF ~v.ok
              THEN /\ version' = NoVersion
                   /\ pc' = "idle"
                   /\ history' = Append(history,
                                    Returned(a, None, None, {}, ErrContext(v.value, <<>>)))
              ELSE /\ version' = v.value
                   /\ pc' = "list"
                   /\ UNCHANGED history
    /\ UNCHANGED << registry, blobs, running, finished, tag_version, failures >>

\* present_semver_tags: list_tags answers, or fails.
ListTags(ok) ==
    /\ UNCHANGED << source_tags, registry_before >>
    /\ pc = "list"
    /\ calls' = Append(calls, Call("list_tags", <<>>, ok))
    /\ failures' = IF ok THEN failures ELSE failures + 1
    /\ LET tag_respones == IF ok THEN Ok(TagList(DOMAIN registry)) ELSE Err(<<>>)
       IN  IF returns_early(tag_respones)
           THEN /\ pc' = "idle"
                /\ history' = Append(history,
                                 Returned(args, Some(version), None, {},
                                          ErrContext("list_tags", <<>>)))
                /\ UNCHANGED existing_tags
           ELSE /\ existing_tags' =
                        present_semver_tags(tag_respones.value, args.tag_prefix)
                /\ pc' = "tag"
                /\ UNCHANGED history
    /\ UNCHANGED << registry, blobs, args, version, tags, baseline_manifest, running,
                    finished, result, pushed, tag_version >>

\* tag(), lines 16-20: the tag list, and the return when it is empty.
Tag ==
    /\ UNCHANGED << source_tags, registry_before, calls >>
    /\ pc = "tag"
    /\ LET computed == tags_to_push(version, existing_tags, args.tag_prefix)
       IN  /\ tags' = computed
           /\ IF is_empty(computed)
              THEN /\ pc' = "idle"
                   /\ history' = Append(history,
                                    Returned(args, Some(version), Some(computed), {}, OkUnit))
              ELSE /\ pc' = "pull"
                   /\ UNCHANGED history
    /\ UNCHANGED << registry, blobs, args, version, existing_tags, baseline_manifest,
                    running, finished, result, pushed, tag_version, failures >>

\* A reference resolved to the blob stored first, whatever it names.
pull_manifest_of_first_blob(image) ==
    IF blobs = {} THEN Err("not found") ELSE Ok(1)

\* client.pull_manifest(image): the manifest the reference resolves to.
pull_manifest(image) ==
    IF image.digest # None
    THEN IF image.digest[1] \in blobs THEN Ok(image.digest[1]) ELSE Err("not found")
    ELSE IF image.tag # None /\ image.tag[1] \in DOMAIN registry
         THEN Ok(registry[image.tag[1]])
         ELSE Err("not found")

\* tag(), lines 22-49: the manifest is pulled, or the pull fails; then one
\* push task is spawned per tag unless dry_run.
PullManifest(ok) ==
    /\ UNCHANGED << source_tags, registry_before >>
    /\ pc = "pull"
    /\ failures' = IF ok THEN failures ELSE failures + 1
    /\ LET m == IF ok THEN pull_manifest(args.image) ELSE Err("Cannot pull manifest")
       IN  /\ calls' = Append(calls, Call("pull_manifest", <<>>, m.ok))
           /\ IF returns_early(m)
              THEN /\ pc' = "idle"
                   /\ history' = Append(history,
                                    Returned(args, Some(version), Some(tags), {},
                                             ErrContext("pull_manifest", <<>>)))
                   /\ UNCHANGED << baseline_manifest, running >>
              ELSE /\ baseline_manifest' = Some(m.value)
                   /\ running' = spawn(tags, args.dry_run)
                   /\ pc' = "join"
                   /\ UNCHANGED history
    /\ UNCHANGED << registry, blobs, args, version, existing_tags, tags, finished,
                    result, pushed, tag_version >>

\* A spawned task, lines 42-47: client.push_manifest(image, baseline_manifest)
\* ends, with the tag written or with an error.
PushManifest(tag, ok) ==
    /\ UNCHANGED << source_tags, registry_before >>
    /\ pc = "join"
    /\ tag \in running
    /\ running' = running \ {tag}
    /\ finished' = Append(finished, [tag |-> tag, ok |-> ok, panicked |-> FALSE])
    /\ calls' = Append(calls, Call("push_manifest", tag, ok))
    /\ IF ok
       THEN /\ registry' = MapPut(registry, tag, baseline_manifest[1])
            /\ tag_version' = MapPut(tag_version, tag,
                                     [version |-> version, run |-> Len(history) + 1])
            /\ pushed' = pushed \cup {tag}
            /\ UNCHANGED failures
       ELSE /\ failures' = failures + 1
            /\ UNCHANGED << registry, tag_version, pushed >>
    /\ UNCHANGED << blobs, pc, args, version, existing_tags, tags, baseline_manifest,
                    result, history >>

\* A spawned task, lines 42-47, ends abnormally: it panics instead of
\* returning the result of push_manifest.
PushPanics(tag) ==
    /\ UNCHANGED << source_tags, registry_before >>
    /\ pc = "join"
    /\ tag \in running
    /\ running' = running \ {tag}
    /\ finished' = Append(finished, [tag |-> tag, ok |-> FALSE, panicked |-> TRUE])
    /\ calls' = Append(calls, Aborted(tag))
    /\ failures' = failures + 1
    /\ UNCHANGED << registry, tag_version, pushed, blobs, pc, args, version,
                    existing_tags, tags, baseline_manifest, result, history >>

\* tag(), lines 52-60: set.join_next() yields a task that returned.
JoinNext ==
    /\ UNCHANGED << source_tags, registry_before, calls >>
    /\ pc = "join"
    /\ Len(finished) > 0
    /\ ~finished[1].panicked
    /\ finished' = Tail(finished)
    /\ result' = join_result(result, finished[1])
    /\ UNCHANGED << registry, blobs, pc, args, version, existing_tags, tags,
                    baseline_manifest, running, pushed, tag_version, failures, history >>

\* tag(), line 61: set.join_next() yields a join error; todo!() panics, the
\* join set is dropped and the tasks still running are aborted.
JoinError ==
    /\ UNCHANGED << source_tags, registry_before, calls >>
    /\ pc = "join"
    /\ Len(finished) > 0
    /\ finished[1].panicked
    /\ finished' = <<>>
    /\ running' = {}
    /\ result' = Panicked
    /\ pc' = "idle"
    /\ history' = Append(history, Returned(args, Some(version), Some(tags), pushed, Panicked))
    /\ UNCHANGED << registry, blobs, args, version, existing_tags, tags,
                    baseline_manifest, pushed, tag_version, failures >>

\* tag(), line 65: the join set is empty and tag() returns result.
Return ==
    /\ UNCHANGED << source_tags, registry_before, calls >>
    /\ pc = "join"
    /\ running = {}
    /\ Len(finished) = 0
    /\ pc' = "idle"
    /\ history' = Append(history, Returned(args, Some(version), Some(tags), pushed, result))
    /\ UNCHANGED << registry, blobs, args, version, existing_tags, tags,
                    baseline_manifest, running, finished, result, pushed, tag_version,
                    failures >>

\* Sequences of invocations with anonymous access, whose registry calls fail
\* at most MaxFailures times and whose push tasks all return.
Next ==
    \/ /\ Cardinality(blobs) < MaxImages
       /\ \E tag \in SourceTags : Upload(tag)
    \/ /\ Len(history) < MaxRuns
       /\ pc = "idle"
       /\ \E image \in ImageRefs, v \in {None} \cup {Some(w) : w \in RunVersions},
             p \in Prefixes, d \in BOOLEAN : Run(image, v, p, d, Anonymous)
    \/ \E ok \in BOOLEAN : (ok \/ failures < MaxFailures) /\ ListTags(ok)
    \/ Tag
    \/ \E ok \in BOOLEAN : (ok \/ failures < MaxFailures) /\ PullManifest(ok)
    \/ \E tag \in running, ok \in BOOLEAN :
            (ok \/ failures < MaxFailures) /\ PushManifest(tag, ok)
    \/ JoinNext
    \/ Return

Spec == Init /\ [][Next]_vars

\* tags_to_push on its own: the inputs are drawn, then tag() computes the list.
InitFn ==
    /\ registry = EmptyMap
    /\ blobs = {}
    /\ pc = "tag"
    /\ \E p \in Prefixes : args = [NoArgs EXCEPT !.tag_prefix = p]
    /\ version \in TargetVersions
    /\ existing_tags \in VersionLists(MaxExisting)
    /\ tags = <<>>
    /\ baseline_manifest = None
    /\ running = {}
    /\ finished = <<>>
    /\ result = OkUnit
    /\ pushed = {}
    /\ tag_version = EmptyMap
    /\ failures = 0
    /\ source_tags = {}
    /\ calls = <<>>
    /\ registry_before = EmptyMap
    /\ history = <<>>

NextFn == Tag

SpecFn == InitFn /\ [][NextFn]_vars

\* The versions one invocation is given on the command line: those of
\* RunVersions, and the releases among them with build metadata.
CliVersions ==
    RunVersions \cup
    {Version(v.major, v.minor, v.patch, v.pre, <<"b">>) :
        v \in {w \in RunVersions : w.minor = MaxNum}}

\* The tag an image is uploaded under before the one invocation: none, the
\* newest release, or the newest release behind the prefix.
RunSourceTags ==
    {None, Some(VersionStr(Version(1, MaxNum, MaxNum, <<>>, <<>>))),
     Some(<<"v">> \o VersionStr(Version(1, MaxNum, MaxNum, <<>>, <<>>)))}

\* One invocation, with any credential flags, any registry call failing
\* and any push task ending abnormally.
NextRun ==
    \/ /\ Len(history) = 0
       /\ Cardinality(blobs) < MaxRunImages
       /\ \E tag \in RunSourceTags : Upload(tag)
    \/ /\ Len(history) = 0
       /\ pc = "idle"
       /\ \E image \in AnyImageRefs, v \in {None} \cup {Some(w) : w \in CliVersions},
             p \in Prefixes, d \in BOOLEAN, c \in CredentialFlags :
               Run(image, v, p, d, c)
    \/ \E ok \in BOOLEAN : ListTags(ok)
    \/ Tag
    \/ \E ok \in BOOLEAN : PullManifest(ok)
    \/ \E tag \in running, ok \in BOOLEAN : PushManifest(tag, ok)
    \/ \E tag \in running : PushPanics(tag)
    \/ JoinNext
    \/ JoinError
    \/ Return

SpecRun == Init /\ [][NextRun]_vars

\* ------------------------------------------------------------------ claims
\* tag() has computed the tag list of the current version, existing_tags and
\* prefix, and no later run has started.
TagsComputed ==
    \/ pc \in {"pull", "join"}
    \/ /\ pc = "idle"
       /\ Len(history) > 0
       /\ history[Len(history)].version = Some(version)
       /\ history[Len(history)].tags = Some(tags)

InTags(t) == \E i \in 1..Len(tags) : tags[i] = t

PatchTag == patch_tag(args.tag_prefix, version)

MinorTag == minor_tag(args.tag_prefix, version)

MajorTag == major_tag(args.tag_prefix, version)

Existing == Range(existing_tags)

\* v >= w in the precedence of semantic versions.
AtLeast(v, w) == ~VersionLess(v, w)

NextMinorLine == Version(version.major, version.minor + 1, 0, <<>>, <<>>)

NextMajorLine == Version(version.major + 1, 0, 0, <<>>, <<>>)

ThisMinorLine == Version(version.major, version.minor, 0, <<>>, <<>>)

\* An existing version that is at least the target and below the next minor
\* and the next major line.
CoversMinor(v) ==
    /\ AtLeast(v, version)
    /\ VersionLess(v, NextMinorLine)
    /\ VersionLess(v, NextMajorLine)

\* An existing version that is at least major.minor.0 and below the next
\* major line.
CoversMajor(v) ==
    /\ AtLeast(v, ThisMinorLine)
    /\ VersionLess(v, NextMajorLine)

\* C1: whenever existing_tags holds a version equal to the target, the tag
\* list is empty, for every prefix and whatever else existing_tags holds.
C1_EqualTargetGivesNoTags ==
    (TagsComputed /\ version \in Existing) => tags = <<>>

\* The target is among the existing versions, no existing version matches
\* the minor or the major requirement, and the list is empty.
C1_Witness ==
    /\ TagsComputed
    /\ version \in Existing
    /\ args.tag_prefix # None
    /\ \A v \in Existing :
          /\ ~matches(minor_version_req(version), v)
          /\ ~matches(major_version_req(version), v)
    /\ tags = <<>>

\* C4 as stated: the minor tag is in the list exactly when the patch tag is
\* and no existing version v has v >= target, v < major.(minor+1).0 and
\* v < (major+1).0.0.
C4_MinorTagIffNoCoveringVersion ==
    TagsComputed =>
        (InTags(MinorTag) <=> (InTags(PatchTag) /\ ~\E v \in Existing : CoversMinor(v)))

\* C4 amended: the minor tag is in the list exactly when the patch tag is
\* and no existing version v without a prerelease has v >= target,
\* v < major.(minor+1).0 and v < (major+1).0.0.
C4_MinorTagIffNoCoveringRelease ==
    TagsComputed =>
        (InTags(MinorTag) <=>
            (InTags(PatchTag) /\ ~\E v \in Existing : Len(v.pre) = 0 /\ CoversMinor(v)))

\* A newer patch of the same minor line exists and only the patch tag is
\* in the list.
C4_Witness ==
    /\ TagsComputed
    /\ \E v \in Existing :
          /\ Len(v.pre) = 0
          /\ v.major = version.major
          /\ v.minor = version.minor
          /\ v.patch > version.patch
    /\ tags = <<PatchTag>>

\* C5 as stated: the major tag is in the list exactly when the minor tag is
\* and no existing version v has v >= major.minor.0 and v < (major+1).0.0.
C5_MajorTagIffNoCoveringVersion ==
    TagsComputed =>
        (InTags(MajorTag) <=> (InTags(MinorTag) /\ ~\E v \in Existing : CoversMajor(v)))

\* C5 amended: the major tag is in the list exactly when the minor tag is
\* and no existing version v without a prerelease has v >= major.minor.0
\* and v < (major+1).0.0.
C5_MajorTagIffNoCoveringRelease ==
    TagsComputed =>
        (InTags(MajorTag) <=>
            (InTags(MinorTag) /\ ~\E v \in Existing : Len(v.pre) = 0 /\ CoversMajor(v)))

\* A version of a later minor of the same major line exists and the list is
\* the minor and the patch tag.
C5_Witness ==
    /\ TagsComputed
    /\ \E v \in Existing :
          /\ Len(v.pre) = 0
          /\ v.major = version.major
          /\ v.minor > version.minor
    /\ tags = <<MinorTag, PatchTag>>

\* C9: the tag list is a suffix of [major tag, minor tag, patch tag].
C9_SuffixOfMajorMinorPatch ==
    TagsComputed =>
        tags \in {<<>>, <<PatchTag>>, <<MinorTag, PatchTag>>,
                  <<MajorTag, MinorTag, PatchTag>>}

\* All three tags are in the list, the major tag first.
C9_Witness ==
    /\ TagsComputed
    /\ args.tag_prefix # None
    /\ tags = <<MajorTag, MinorTag, PatchTag>>

\* C10: when no existing version is of the target's major line, the list is
\* all three tags.
C10_OtherMajorLinesGiveAllTags ==
    (TagsComputed /\ \A v \in Existing : v.major # version.major)
        => tags = <<MajorTag, MinorTag, PatchTag>>

\* Versions of a greater major line exist, none of the target's, and the
\* list is all three tags.
C10_Witness ==
    /\ TagsComputed
    /\ \E v \in Existing : v.major > version.major
    /\ \A v \in Existing : v.major # version.major
    /\ tags = <<MajorTag, MinorTag, PatchTag>>

\* An invocation that was not a dry run, computed its tag list and returned
\* success, every push it made having succeeded.
Completed(h) ==
    /\ h.tags # None
    /\ h.result.ok
    /\ ~h.args.dry_run
    /\ h.pushed = Range(h.tags[1])

\* An invocation that published its target: it completed and pushed tags.
Published(h) == Completed(h) /\ h.pushed # {}

SameMinorLine(v, w) == v.major = w.major /\ v.minor = w.minor

\* C2: the repository holds the source image under tag X.Y.Z only; a run on
\* that reference without version, prefix and dry_run, every registry call
\* succeeding, ends with tags X.Y and X on the manifest of X.Y.Z.
C2_FloatingTagsOfTheImageTag ==
    (/\ pc = "idle"
     /\ Len(history) = 1
     /\ history[1].result.ok
     /\ history[1].args.image.tag # None
     /\ history[1].args.tag_version = None
     /\ history[1].args.tag_prefix = None
     /\ ~history[1].args.dry_run
     /\ Len(history[1].version[1].pre) = 0
     /\ source_tags = {history[1].args.image.tag[1]})
    => LET v == history[1].version[1]
           src == history[1].args.image.tag[1]
       IN  /\ minor_tag(None, v) \in DOMAIN registry
           /\ major_tag(None, v) \in DOMAIN registry
           /\ registry[minor_tag(None, v)] = registry[src]
           /\ registry[major_tag(None, v)] = registry[src]

\* C3: after an invocation that completed, the next invocation with the
\* same image, target and prefix computes the empty list, pushes nothing
\* and returns success.
C3_SecondRunPushesNothing ==
    (/\ pc = "idle"
     /\ Len(history) >= 2
     /\ Completed(history[Len(history) - 1])
     /\ history[Len(history)].args.image = history[Len(history) - 1].args.image
     /\ history[Len(history)].version = history[Len(history) - 1].version
     /\ history[Len(history)].args.tag_prefix = history[Len(history) - 1].args.tag_prefix
     /\ history[Len(history)].tags # None)
    => /\ history[Len(history)].tags = Some(<<>>)
       /\ history[Len(history)].pushed = {}
       /\ history[Len(history)].result.ok

\* C6: after invocations that all completed, each with an explicit version
\* M.m.x and all with one prefix, on a repository that held no tag, the
\* minor tag of every published version was last pushed for the greatest
\* published version of its minor line, and the major tag for the greatest
\* of its major line.
C6_FloatingTagsAtNewest ==
    (/\ pc = "idle"
     /\ source_tags = {}
     /\ \A i \in 1..Len(history) :
           /\ Completed(history[i])
           /\ history[i].args.tag_version # None
           /\ Len(history[i].version[1].pre) = 0
           /\ history[i].args.tag_prefix = history[1].args.tag_prefix)
    => \A i, j \in 1..Len(history) :
          LET v == history[i].version[1]
              w == history[j].version[1]
              p == history[i].args.tag_prefix
          IN  /\ SameMinorLine(v, w) =>
                    /\ minor_tag(p, v) \in DOMAIN tag_version
                    /\ AtLeast(tag_version[minor_tag(p, v)].version, w)
              /\ v.major = w.major =>
                    /\ major_tag(p, v) \in DOMAIN tag_version
                    /\ AtLeast(tag_version[major_tag(p, v)].version, w)

C8_NoPublishedTagOverwritten ==
    pc = "pull" =>
        \A k \in 1..Len(tags) :
            (/\ tags[k] \in DOMAIN tag_version
             /\ Published(history[tag_version[tags[k]].run]))
            => IF tags[k] = PatchTag
               THEN tag_version[tags[k]].version = version
               ELSE AtLeast(version, tag_version[tags[k]].version)

\* --------------------------------------------------- claims, one invocation
\* p prepended to each tag of a list.
WithPrefix(p, tag_list) == [i \in 1..Len(tag_list) |-> p \o tag_list[i]]

\* C11: the tag list computed with prefix p is the tag list computed
\* without a prefix with p prepended to each tag, in the same order.
C11_PrefixOnlyChangesTagStrings ==
    TagsComputed =>
        tags = WithPrefix(IF args.tag_prefix = None THEN <<>> ELSE args.tag_prefix[1],
                          tags_to_push(version, existing_tags, None))

\* A prefix is given, versions exist, and the minor and the patch tag are
\* in the list, each behind the prefix.
C11_Witness ==
    /\ TagsComputed
    /\ args.tag_prefix # None
    /\ Existing # {}
    /\ Len(tags) = 2
    /\ \A i \in 1..Len(tags) : starts_with(tags[i], args.tag_prefix[1])

\* The invocation of the state has returned.
HasReturned == pc = "idle" /\ Len(history) > 0

LastRun == history[Len(history)]

\* The positions in calls of the calls of one operation.
CallsOf(op) == {i \in 1..Len(calls) : calls[i].op = op}

\* The positions in calls of the pushes of one tag.
PushesOf(tag) == {i \in CallsOf("push_manifest") : calls[i].image = tag}

\* The invocation has touched nothing: no registry call, no tag list, no
\* task, and the repository as it was.
NothingDone ==
    /\ pc = "idle"
    /\ calls = <<>>
    /\ tags = <<>>
    /\ running = {}
    /\ pushed = {}
    /\ registry = registry_before

\* C12: an invocation whose explicit version has build metadata ends in an
\* error without a tag list and without any registry call.
C12_BuildMetadataAbortsBeforeAnyCall ==
    (args.tag_version # None /\ Len(args.tag_version[1].build) > 0)
        => /\ NothingDone
           /\ Len(history) > 0 => ~LastRun.result.ok
           /\ (Len(history) > 0 /\ args.credentials = Anonymous)
                 => LastRun.result.value.error = "contains build metadata"

\* A version with build metadata was given for an image of the repository,
\* and the invocation has returned the error of version_to_tag.
C12_Witness ==
    /\ HasReturned
    /\ args.tag_version # None
    /\ Len(args.tag_version[1].build) > 0
    /\ Len(args.tag_version[1].pre) > 0
    /\ args.credentials = Anonymous
    /\ DOMAIN registry # {}
    /\ LastRun.result.value.error = "contains build metadata"

\* C13: an invocation whose tag list is empty returns success, having made
\* no call but the tag-list fetch, and leaves the repository as it was.
C13_EmptyListReturnsWithoutPullOrPush ==
    (HasReturned /\ LastRun.tags = Some(<<>>))
        => /\ LastRun.result.ok
           /\ CallsOf("pull_manifest") = {}
           /\ CallsOf("push_manifest") = {}
           /\ LastRun.pushed = {}
           /\ registry = registry_before

\* The target is the version of the image tag, the list is empty and the
\* invocation has returned after the tag-list fetch alone.
C13_Witness ==
    /\ HasReturned
    /\ LastRun.tags = Some(<<>>)
    /\ LastRun.result.ok
    /\ args.image.tag # None
    /\ ~args.dry_run
    /\ Len(calls) = 1
    /\ calls[1].op = "list_tags"

\* C14: once tag() is past the pull, exactly one pull was made, it
\* succeeded and it ended before every push; at most one pull is ever made;
\* and when the tag-list fetch or the pull has failed the invocation has
\* returned an error, with no push and the repository as it was.
C14_OnePullBeforePushesAndFatalFetch ==
    /\ Cardinality(CallsOf("pull_manifest")) <= 1
    /\ (pc = "join" \/ running # {} \/ CallsOf("push_manifest") # {})
          => /\ Cardinality(CallsOf("pull_manifest")) = 1
             /\ \A i \in CallsOf("pull_manifest") :
                   /\ calls[i].ok
                   /\ \A j \in CallsOf("push_manifest") : i < j
    /\ (\E i \in CallsOf("list_tags") \cup CallsOf("pull_manifest") : ~calls[i].ok)
          => /\ HasReturned
             /\ ~LastRun.result.ok
             /\ CallsOf("push_manifest") = {}
             /\ running = {}
             /\ LastRun.pushed = {}
             /\ registry = registry_before

\* The pull of an invocation with three tags to push has failed, and the
\* invocation has returned the error.
C14_Witness ==
    /\ HasReturned
    /\ LastRun.tags # None
    /\ Len(LastRun.tags[1]) = 3
    /\ ~args.dry_run
    /\ Len(calls) = 2
    /\ calls[2].op = "pull_manifest"
    /\ ~calls[2].ok
    /\ LastRun.result.value.error = "pull_manifest"

\* C15: a dry run makes no push and leaves the repository as it was, and
\* once the manifest is pulled and the plan reported it returns success.
C15_DryRunPushesNothing ==
    args.dry_run
        => /\ CallsOf("push_manifest") = {}
           /\ running = {}
           /\ pushed = {}
           /\ registry = registry_before
           /\ pc = "join" => result.ok
           /\ (HasReturned /\ \E i \in CallsOf("pull_manifest") : calls[i].ok)
                 => LastRun.result.ok

\* A dry run with three tags to report has pulled the manifest and
\* returned success.
C15_Witness ==
    /\ HasReturned
    /\ args.dry_run
    /\ LastRun.tags # None
    /\ Len(LastRun.tags[1]) = 3
    /\ LastRun.result.ok
    /\ Len(calls) = 2
    /\ calls[2].op = "pull_manifest"
    /\ calls[2].ok

\* tag() has returned from its join loop: the pull succeeded and no task
\* ended abnormally.
ReturnedFromJoin ==
    /\ HasReturned
    /\ \E i \in CallsOf("pull_manifest") : calls[i].ok
    /\ \A i \in 1..Len(calls) : ~calls[i].panicked

\* C16: outside dry-run, while tag() joins, every tag of the list is being
\* pushed or has been pushed once, whatever the other pushes returned; and
\* when tag() has returned every tag of the list has had exactly one push.
C16_EveryTagPushedOnce ==
    /\ \A i \in CallsOf("push_manifest") : calls[i].image \in Range(tags)
    /\ (pc = "join" /\ ~args.dry_run)
          => \A t \in Range(tags) :
                IF t \in running THEN PushesOf(t) = {} ELSE Cardinality(PushesOf(t)) = 1
    /\ (ReturnedFromJoin /\ ~args.dry_run)
          => /\ \A t \in Range(tags) : Cardinality(PushesOf(t)) = 1
             /\ Cardinality(CallsOf("push_manifest")) = Len(tags)

\* The first push to end has failed, the two other tags were pushed after
\* it, and tag() has returned.
C16_Witness ==
    /\ ReturnedFromJoin
    /\ ~args.dry_run
    /\ Len(tags) = 3
    /\ Len(calls) = 5
    /\ ~calls[3].ok
    /\ calls[4].ok
    /\ calls[5].ok
    /\ LastRun.pushed = {calls[4].image, calls[5].image}

\* The positions in calls of the pushes that returned an error.
FailedPushes == {i \in CallsOf("push_manifest") : ~calls[i].ok}

\* The greatest of a non-empty set of positions.
Last(positions) == CHOOSE i \in positions : \A j \in positions : j <= i

\* C17: when tag() has returned from its join loop, it has returned
\* success exactly when no push failed, and otherwise the error of the push
\* that failed last, with the tag of that push.
C17_ResultIsLastFailedPush ==
    ReturnedFromJoin
        => /\ LastRun.result.ok <=> FailedPushes = {}
           /\ FailedPushes # {}
                 => /\ LastRun.result.value.error = "push_manifest"
                    /\ LastRun.result.value.image = calls[Last(FailedPushes)].image

\* Two pushes have failed, a third has succeeded after them, and tag() has
\* returned the error of the second.
C17_Witness ==
    /\ ReturnedFromJoin
    /\ Len(calls) = 5
    /\ ~calls[3].ok
    /\ ~calls[4].ok
    /\ calls[5].ok
    /\ ~LastRun.result.ok
    /\ LastRun.result.value.image = calls[4].image

\* C18: an invocation in which a push task ended abnormally does not
\* return from tag(): it is still joining, or it has ended with the panic
\* of todo!() and never with success.
C18_JoinErrorIsFatal ==
    (\E i \in 1..Len(calls) : calls[i].panicked)
        => \/ pc = "join"
           \/ /\ HasReturned
              /\ ~LastRun.result.ok
              /\ LastRun.result.value.error = "not yet implemented"

\* A push has succeeded, another task has panicked, and the invocation has
\* ended with the panic.
C18_Witness ==
    /\ HasReturned
    /\ Len(calls) >= 4
    /\ calls[3].ok
    /\ calls[4].panicked
    /\ LastRun.pushed # {}
    /\ LastRun.result.value.error = "not yet implemented"

\* The manifest of the source image when the invocation started.
SourceManifest ==
    IF args.image.digest # None THEN args.image.digest[1]
    ELSE registry_before[args.image.tag[1]]

\* C19: the manifest pulled is the manifest of the source image, and every
\* tag the invocation has pushed resolves to it, as the source image still
\* does.
C19_PushedTagsResolveToSourceManifest ==
    (pc = "join" \/ (HasReturned /\ \E i \in CallsOf("pull_manifest") : calls[i].ok))
        => /\ baseline_manifest = Some(SourceManifest)
           /\ \A t \in pushed :
                 /\ t \in DOMAIN registry
                 /\ registry[t] = SourceManifest
           /\ args.image.tag # None => registry[args.image.tag[1]] = SourceManifest

\* The repository holds two manifests, the source image is the second, and
\* three tags were pushed for it.
C19_Witness ==
    /\ HasReturned
    /\ Cardinality(blobs) = 2
    /\ SourceManifest = 2
    /\ Cardinality(pushed) = 3
    /\ \A t \in pushed : registry[t] = 2

\* The credential flags are neither those of anonymous access nor a user
\* with a password variable that can be read.
CredentialError(c) ==
    ~ \/ (c.user = None /\ ~c.stdin /\ c.env = None)
      \/ (c.user # None /\ ~c.stdin /\ c.env # None /\ c.env_value # None)

\* No version is given and the image tag is missing, does not start with
\* the prefix or does not read as a version; or the version given has
\* build metadata.
InputError(a) ==
    IF a.tag_version # None THEN Len(a.tag_version[1].build) > 0
    ELSE \/ a.image.tag = None
         \/ /\ a.tag_prefix # None
            /\ ~starts_with(a.image.tag[1], a.tag_prefix[1])
         \/ /\ a.tag_prefix = None
            /\ Version_from_str(a.image.tag[1]) = None
         \/ /\ a.tag_prefix # None
            /\ starts_with(a.image.tag[1], a.tag_prefix[1])
            /\ Version_from_str(trim_start_matches(a.image.tag[1], a.tag_prefix[1])) = None

\* C20: an invocation with an input or credential error has returned an
\* error without any registry call, and an invocation that is under way or
\* has made a registry call has no such error.
C20_InputErrorsAbortBeforeAnyCall ==
    /\ (Len(history) > 0 /\ (CredentialError(args.credentials) \/ InputError(args)))
          => /\ NothingDone
             /\ ~LastRun.result.ok
    /\ (pc # "idle" \/ calls # <<>>)
          => ~(CredentialError(args.credentials) \/ InputError(args))

\* The password variable cannot be read, the input is otherwise valid, and
\* the invocation has returned the error.
C20_Witness ==
    /\ HasReturned
    /\ args.credentials.user # None
    /\ args.credentials.env # None
    /\ args.credentials.env_value = None
    /\ ~InputError(args)
    /\ DOMAIN registry # {}
    /\ ~LastRun.result.ok
    /\ calls = <<>>

\* ------------------------------------------------- tags read from the registry
\* The prefixes of an invocation on a repository of arbitrary tags: those
\* of Prefixes, and one that is a digit.
TagPrefixes == Prefixes \cup {Some(<<"1">>)}

\* The tags such a repository holds: the newest release and its minor tag,
\* bare and behind "v", "vv" and "1".
TagStrings ==
    {p \o s : p \in {<<>>, <<"v">>, <<"v", "v">>, <<"1">>},
              s \in {VersionStr(Version(1, MaxNum, MaxNum, <<>>, <<>>)),
                     minor_tag(None, Version(1, MaxNum, MaxNum, <<>>, <<>>))}}

\* One image is stored under at most MaxTags tags.
InitTags ==
    /\ \E held \in {S \in SUBSET TagStrings : Cardinality(S) <= MaxTags} :
          /\ registry = [t \in held |-> 1]
          /\ source_tags = held
    /\ blobs = {1}
    /\ pc = "idle"
    /\ args = NoArgs
    /\ version = NoVersion
    /\ existing_tags = <<>>
    /\ tags = <<>>
    /\ baseline_manifest = None
    /\ running = {}
    /\ finished = <<>>
    /\ result = OkUnit
    /\ pushed = {}
    /\ tag_version = EmptyMap
    /\ failures = 0
    /\ calls = <<>>
    /\ registry_before = EmptyMap
    /\ history = <<>>

\* One invocation up to its tag list: version_to_tag, present_semver_tags
\* and tags_to_push.
NextTags ==
    \/ /\ Len(history) = 0
       /\ pc = "idle"
       /\ \E image \in AnyImageRefs, v \in {None} \cup {Some(w) : w \in CliVersions},
             p \in TagPrefixes : Run(image, v, p, FALSE, Anonymous)
    \/ ListTags(TRUE)
    \/ Tag

SpecTags == InitTags /\ [][NextTags]_vars

\* An invocation has started.
Started == pc # "idle" \/ Len(history) > 0

\* What version_to_tag returned to the invocation: the target, or None for
\* an error.
Resolved == IF pc = "idle" THEN LastRun.version ELSE Some(version)

\* A tag with the prefix taken off its front once; None when the tag does
\* not start with the prefix.
StrippedOnce(tag, prefix) ==
    IF prefix = None THEN Some(tag)
    ELSE IF starts_with(tag, prefix[1])
         THEN Some(SubSeq(tag, Len(prefix[1]) + 1, Len(tag)))
         ELSE None

\* The version a tag carries behind the prefix, or None.
CarriedVersion(tag, prefix) ==
    IF StrippedOnce(tag, prefix) = None THEN None
    ELSE Version_from_str(StrippedOnce(tag, prefix)[1])

\* C21: version_to_tag returns the version given explicitly (one the tool
\* accepts, without build metadata) whatever the image tag and the prefix
\* are; when none is given it fails on a missing image tag and on an image
\* tag that does not start with the prefix, and otherwise returns what the
\* image tag with the prefix stripped parses as, or fails when it does not
\* parse.
C21_ExplicitVersionElseImageTag ==
    Started =>
        IF args.tag_version # None
        THEN Len(args.tag_version[1].build) = 0 => Resolved = args.tag_version
        ELSE IF args.image.tag = None THEN Resolved = None
        ELSE Resolved = CarriedVersion(args.image.tag[1], args.tag_prefix)

\* C22: the versions present_semver_tags yields are those the tags of the
\* repository carry behind the prefix stripped once, the other tags being
\* dropped; and the patch tag of the target is read back as
\* major.minor.patch.
C22_ExistingAreTagsBehindPrefix ==
    /\ (pc = "tag" /\ Len(calls) = 1)
          => Range(existing_tags) =
                UNION {Range(CarriedVersion(t, args.tag_prefix)) : t \in DOMAIN registry}
    /\ pc # "idle"
          => semver_of_tag(patch_tag(args.tag_prefix, version), args.tag_prefix)
                = Some(Version(version.major, version.minor, version.patch, <<>>, <<>>))

\* C23: when an invocation ended with some tags pushed and some pushes
\* failed, the next invocation with the same image, version and prefix has
\* every tag whose push failed in its tag list.
C23_RerunPushesFailedTags ==
    \A i \in 1..(Len(history) - 1) :
        (/\ history[i].tags # None
         /\ ~history[i].args.dry_run
         /\ history[i].pushed # {}
         /\ history[i].pushed # Range(history[i].tags[1])
         /\ ~history[i].result.ok
         /\ history[i].result.value.error = "push_manifest"
         /\ history[i + 1].args = history[i].args
         /\ history[i + 1].tags # None)
        => Range(history[i].tags[1]) \ history[i].pushed
               \subseteq Range(history[i + 1].tags[1])

\* The tags whose push returned success.
PushedOk == {calls[i].image : i \in {j \in CallsOf("push_manifest") : calls[j].ok}}

\* The tags whose push returned an error.
PushedErr == {calls[i].image : i \in FailedPushes}

\* C24: when tag() has returned from its join loop, the tags pushed, the
\* repository and the success of the result are those the outcomes of the
\* pushes give, in whatever order the pushes ended; the error returned is
\* that of one of the failing pushes.
C24_OutcomeIndependentOfCompletionOrder ==
    ReturnedFromJoin
        => /\ LastRun.pushed = PushedOk
           /\ LastRun.result.ok <=> PushedErr = {}
           /\ registry = [t \in DOMAIN registry_before \cup PushedOk |->
                            IF t \in PushedOk THEN baseline_manifest[1]
                            ELSE registry_before[t]]
           /\ ~LastRun.result.ok => LastRun.result.value.image \in PushedErr

\* The pushes of the first and the second tag of the list have failed, the
\* second before the first, the third tag was pushed, and the error
\* returned is that of the first tag.
C24_Witness ==
    /\ ReturnedFromJoin
    /\ Len(tags) = 3
    /\ Len(calls) = 5
    /\ calls[3] = Call("push_manifest", tags[2], FALSE)
    /\ calls[4] = Call("push_manifest", tags[1], FALSE)
    /\ calls[5] = Call("push_manifest", tags[3], TRUE)
    /\ LastRun.pushed = {tags[3]}
    /\ LastRun.result.value.image = tags[1]

====
